---- MODULE Spec2Model ----
(***************************************************************************)
(* Model of app.py, the Ferrite Agencies order report script: the quantity *)
(* parser extract_quantities, the pandas normalisation / groupby / sort    *)
(* pipeline, the table rows handed to the PDF, and the try/except that     *)
(* decides which Streamlit message is shown.                               *)
(*                                                                         *)
(* Strings are sequences of one-character strings.  Floats are fixed-point *)
(* integers in units of 1/Scale, exact for every string of the model.      *)
(* A spreadsheet cell is a record: kind "na" is an empty cell (NaN), kind  *)
(* "str" a text cell, kind "num" a whole-number cell.                      *)
(***************************************************************************)
EXTENDS Integers, Sequences, FiniteSets, TLC

\* Longest quantity string fed to extract_quantities on its own.
MaxLen == 4

\* Largest whole-number cell fed to extract_quantities on its own.
MaxNum == 2

\* Most rows on the uploaded sheet.
MaxRows == 2

VARIABLES
    pc,          \* position of the script (or of the extract_quantities call)
    value,       \* argument of the extract_quantities call under study
    result,      \* what that call returned or raised
    rows,        \* the sheet 'Item Details' of the uploaded file
    df,          \* the data frame
    table_data,  \* body rows of the PDF table, then the TOTAL ITEMS row
    t_qty,       \* running total of Quantity
    t_free,      \* running total of Free_Quantity
    failed,      \* the step of the try block that raised, "" when none did
    errors,      \* number of st.error messages shown
    success,     \* st.success was shown
    download     \* st.download_button was shown

vars == <<pc, value, result, rows, df, table_data, t_qty, t_free,
          failed, errors, success, download>>

----------------------------------------------------------------------------
(* Characters and strings *)

DigitChars == {"0", "1", "2", "3", "4", "5", "6", "7", "8", "9"}

DigitVal(c) ==
    CASE c = "0" -> 0 [] c = "1" -> 1 [] c = "2" -> 2 [] c = "3" -> 3
      [] c = "4" -> 4 [] c = "5" -> 5 [] c = "6" -> 6 [] c = "7" -> 7
      [] c = "8" -> 8 [] c = "9" -> 9

DigitChar(d) ==
    CASE d = 0 -> "0" [] d = 1 -> "1" [] d = 2 -> "2" [] d = 3 -> "3"
      [] d = 4 -> "4" [] d = 5 -> "5" [] d = 6 -> "6" [] d = 7 -> "7"
      [] d = 8 -> "8" [] d = 9 -> "9"

\* The letters, in code point order: "A" is 65 and "a" is 97.
Upper ==
    <<"A", "B", "C", "D", "E", "F", "G", "H", "I", "J", "K", "L", "M",
      "N", "O", "P", "Q", "R", "S", "T", "U", "V", "W", "X", "Y", "Z">>

Lower ==
    <<"a", "b", "c", "d", "e", "f", "g", "h", "i", "j", "k", "l", "m",
      "n", "o", "p", "q", "r", "s", "t", "u", "v", "w", "x", "y", "z">>

\* Code point of a character: Python orders strings by code point.
Ord(c) ==
    CASE c = " " -> 32 [] c = "+" -> 43 [] c = "-" -> 45 [] c = "." -> 46
      [] c \in DigitChars -> 48 + DigitVal(c)
      [] \E i \in DOMAIN Upper : Upper[i] = c ->
            64 + (CHOOSE i \in DOMAIN Upper : Upper[i] = c)
      [] \E i \in DOMAIN Lower : Lower[i] = c ->
            96 + (CHOOSE i \in DOMAIN Lower : Lower[i] = c)

RECURSIVE Pow10(_)
Pow10(n) == IF n = 0 THEN 1 ELSE 10 * Pow10(n - 1)

\* One unit of quantity in fixed point: a string of MaxLen characters with
\* a decimal point has at most MaxLen - 1 decimals.
Scale == Pow10(MaxLen - 1)

\* str.strip(): leading and trailing whitespace removed.
RECURSIVE LStrip(_)
LStrip(s) == IF s # <<>> /\ Head(s) = " " THEN LStrip(Tail(s)) ELSE s

RECURSIVE RStrip(_)
RStrip(s) ==
    IF s # <<>> /\ s[Len(s)] = " " THEN RStrip(SubSeq(s, 1, Len(s) - 1)) ELSE s

Strip(s) == RStrip(LStrip(s))

\* c in s
Contains(s, c) == \E i \in DOMAIN s : s[i] = c

\* s.find(c), 1-based; only used when c is in s.
Find(s, c) == CHOOSE i \in DOMAIN s : s[i] = c /\ \A j \in 1..(i - 1) : s[j] # c

\* s.split(c): the list of all the pieces between occurrences of c.
RECURSIVE Split(_, _)
Split(s, c) ==
    IF ~Contains(s, c) THEN <<s>>
    ELSE LET i == Find(s, c)
         IN  <<SubSeq(s, 1, i - 1)>> \o Split(SubSeq(s, i + 1, Len(s)), c)

\* str(n) of a whole number n >= 0.
RECURSIVE IntToStr(_)
IntToStr(n) ==
    IF n < 10 THEN <<DigitChar(n)>>
    ELSE IntToStr(n \div 10) \o <<DigitChar(n % 10)>>

RECURSIVE DigitsVal(_)
DigitsVal(s) ==
    IF s = <<>> THEN 0
    ELSE 10 * DigitsVal(SubSeq(s, 1, Len(s) - 1)) + DigitVal(s[Len(s)])

----------------------------------------------------------------------------
(* float(s).  Surrounding whitespace is ignored, then an optional sign and *)
(* a decimal literal with at least one digit and at most one point.        *)
(* raised is the ValueError of an unparsable string.  Exponents, inf, nan  *)
(* and digit separators need characters the model's strings do not hold.   *)

Float(s) ==
    LET t     == Strip(s)
        sgn   == t # <<>> /\ Head(t) \in {"+", "-"}
        body  == IF sgn THEN Tail(t) ELSE t
        dots  == {i \in DOMAIN body : body[i] = "."}
        valid == /\ \A i \in DOMAIN body : body[i] \in DigitChars \cup {"."}
                 /\ \E i \in DOMAIN body : body[i] \in DigitChars
                 /\ Cardinality(dots) <= 1
        d     == IF dots = {} THEN Len(body) + 1 ELSE CHOOSE i \in dots : TRUE
        ip    == SubSeq(body, 1, d - 1)
        fp    == SubSeq(body, d + 1, Len(body))
        mag   == DigitsVal(ip) * Scale + (DigitsVal(fp) * Scale) \div Pow10(Len(fp))
    IN  IF valid
        THEN [raised |-> FALSE, val |-> IF sgn /\ Head(t) = "-" THEN -mag ELSE mag]
        ELSE [raised |-> TRUE, val |-> 0]

----------------------------------------------------------------------------
(* Cells *)

NA == [kind |-> "na", str |-> <<>>, num |-> 0]
Text(s) == [kind |-> "str", str |-> s, num |-> 0]
Num(n) == [kind |-> "num", str |-> <<>>, num |-> n]

\* pd.isna(value)
isna(v) == v.kind = "na"

\* str(value)
str(v) == IF v.kind = "num" THEN IntToStr(v.num) ELSE v.str

----------------------------------------------------------------------------
(* extract_quantities *)

Return(b, f) == [raised |-> FALSE, base |-> b, free |-> f]
Raise == [raised |-> TRUE, base |-> 0, free |-> 0]

\* As extract_quantities, with the no-'+' branch outside any try.
extract_quantities_bare(v) ==
    IF isna(v) THEN Return(0, 0)
    ELSE LET val_str == Strip(str(v)) IN
         IF Contains(val_str, "+")
         THEN LET parts == Split(val_str, "+")
                  b == IF Strip(parts[1]) # <<>> THEN Float(parts[1])
                       ELSE [raised |-> FALSE, val |-> 0]
                  f == IF Strip(parts[2]) # <<>> THEN Float(parts[2])
                       ELSE [raised |-> FALSE, val |-> 0]
              IN  IF b.raised \/ f.raised THEN Return(0, 0)
                  ELSE Return(b.val, f.val)
         ELSE LET n == Float(val_str)
              IN  IF n.raised THEN Raise ELSE Return(n.val, 0)

\* As extract_quantities, with one try around each float() call, so that a
\* side that fails counts as 0.0 and the other side is kept.
extract_quantities_partial(v) ==
    IF isna(v) THEN Return(0, 0)
    ELSE LET val_str == Strip(str(v)) IN
         IF Contains(val_str, "+")
         THEN LET parts == Split(val_str, "+")
                  b == IF Strip(parts[1]) # <<>> THEN Float(parts[1])
                       ELSE [raised |-> FALSE, val |-> 0]
                  f == IF Strip(parts[2]) # <<>> THEN Float(parts[2])
                       ELSE [raised |-> FALSE, val |-> 0]
              IN  Return(b.val, f.val)
         ELSE LET n == Float(val_str)
              IN  IF n.raised THEN Return(0, 0) ELSE Return(n.val, 0)

\* extract_quantities(value).  The first float() that raises ends the try
\* body; the bare except returns (0.0, 0.0).
extract_quantities(v) ==
    IF isna(v) THEN Return(0, 0)
    ELSE LET val_str == Strip(str(v)) IN
         IF Contains(val_str, "+")
         THEN LET parts == Split(val_str, "+")
                  b == IF Strip(parts[1]) # <<>> THEN Float(parts[1])
                       ELSE [raised |-> FALSE, val |-> 0]
                  f == IF Strip(parts[2]) # <<>> THEN Float(parts[2])
                       ELSE [raised |-> FALSE, val |-> 0]
              IN  IF b.raised \/ f.raised THEN Return(0, 0)
                  ELSE Return(b.val, f.val)
         ELSE LET n == Float(val_str)
              IN  IF n.raised THEN Return(0, 0) ELSE Return(n.val, 0)

----------------------------------------------------------------------------
(* The call of extract_quantities on its own *)

QtyChars == {"1", "2", ".", "-", "+", " ", "a"}

RECURSIVE StringsUpTo(_, _)
StringsUpTo(chars, n) ==
    IF n = 0 THEN {<<>>}
    ELSE LET shorter == StringsUpTo(chars, n - 1)
         IN  shorter \cup {Append(s, c) : s \in shorter, c \in chars}

QtyCells ==
    {NA} \cup {Num(n) : n \in 0..MaxNum}
         \cup {Text(s) : s \in StringsUpTo(QtyChars, MaxLen)}

Idle ==
    /\ rows = <<>>
    /\ df = <<>>
    /\ table_data = <<>>
    /\ t_qty = 0
    /\ t_free = 0
    /\ failed = ""
    /\ errors = 0
    /\ success = FALSE
    /\ download = FALSE

InitParse ==
    /\ pc = "call"
    /\ value \in QtyCells
    /\ result = Return(0, 0)
    /\ Idle

Extract ==
    /\ pc = "call"
    /\ result' = extract_quantities(value)
    /\ pc' = "return"
    /\ UNCHANGED <<value, rows, df, table_data, t_qty, t_free,
                   failed, errors, success, download>>

NextParse == Extract

SpecParse == InitParse /\ [][NextParse]_vars

----------------------------------------------------------------------------
(* The data frame steps of the try block *)

\* One sheet row as read_excel returns it, columns D, G, H, K, L.
Row(item, cat, mrp, qty, unit) ==
    [Item_Name |-> item, Category |-> cat, MRP |-> mrp, Raw_Qty |-> qty,
     Unit |-> unit]

\* Lexicographic order of two strings by code point.
RECURSIVE StrLess(_, _)
StrLess(a, b) ==
    IF b = <<>> THEN FALSE
    ELSE IF a = <<>> THEN TRUE
    ELSE IF Head(a) # Head(b) THEN Ord(Head(a)) < Ord(Head(b))
    ELSE StrLess(Tail(a), Tail(b))

RECURSIVE SumSeq(_)
SumSeq(s) == IF s = <<>> THEN 0 ELSE Head(s) + SumSeq(Tail(s))

\* df['Raw_Qty'].apply(extract_quantities), then the two new columns.
WithQuantities(d) ==
    [i \in DOMAIN d |->
        LET q == extract_quantities(d[i].Raw_Qty)
        IN  [Item_Name |-> d[i].Item_Name, Category |-> d[i].Category,
             MRP |-> d[i].MRP, Raw_Qty |-> d[i].Raw_Qty, Unit |-> d[i].Unit,
             Quantity |-> q.base, Free_Quantity |-> q.free]]

\* pd.to_numeric(cell, errors='coerce') followed by fillna(0).
to_numeric_fillna(v) ==
    CASE v.kind = "na"  -> 0
      [] v.kind = "num" -> v.num * Scale
      [] v.kind = "str" -> LET n == Float(v.str)
                           IN  IF n.raised THEN 0 ELSE n.val

\* As fill_str_strip, without the .str.strip().
fill_str(v, fill) == IF isna(v) THEN fill ELSE str(v)

\* cell.fillna(fill).astype(str).str.strip()
fill_str_strip(v, fill) == IF isna(v) THEN Strip(fill) ELSE Strip(str(v))

Uncategorized ==
    <<"U", "n", "c", "a", "t", "e", "g", "o", "r", "i", "z", "e", "d">>

\* Lines 47-49: MRP, Unit and Category of every row.
Normalized(d) ==
    [i \in DOMAIN d |->
        [Item_Name |-> d[i].Item_Name,
         Category |-> fill_str_strip(d[i].Category, Uncategorized),
         MRP |-> to_numeric_fillna(d[i].MRP),
         Raw_Qty |-> d[i].Raw_Qty,
         Unit |-> fill_str_strip(d[i].Unit, <<"-">>),
         Quantity |-> d[i].Quantity,
         Free_Quantity |-> d[i].Free_Quantity]]

\* The group key of a row: the columns groupby is given.
Key(r) == <<r.Category, str(r.Item_Name), r.Unit>>

\* groupby leaves out the rows with a NaN in a key column (dropna=True).
HasKey(r) == ~isna(r.Item_Name)

\* Order of two group keys, column by column.
KeyLess(k1, k2) ==
    \/ StrLess(k1[1], k2[1])
    \/ k1[1] = k2[1] /\ StrLess(k1[2], k2[2])
    \/ k1[1] = k2[1] /\ k1[2] = k2[2] /\ StrLess(k1[3], k2[3])

\* The keys of a set, ascending.
RECURSIVE SortedKeys(_)
SortedKeys(ks) ==
    IF ks = {} THEN <<>>
    ELSE LET m == CHOOSE k \in ks : \A o \in ks \ {k} : KeyLess(k, o)
         IN  <<m>> \o SortedKeys(ks \ {m})

\* The keys of the rows in order of first appearance.
RECURSIVE FirstSeenKeys(_)
FirstSeenKeys(d) ==
    IF d = <<>> THEN <<>>
    ELSE LET front == FirstSeenKeys(SubSeq(d, 1, Len(d) - 1))
             last  == d[Len(d)]
         IN  IF HasKey(last) /\ \A i \in DOMAIN front : front[i] # Key(last)
             THEN Append(front, Key(last))
             ELSE front

\* As GroupKeys with sort=False: groups in order of first appearance.
GroupKeysUnsorted(d) == FirstSeenKeys(d)

\* The groups groupby forms, in the order it emits them (sort=True).
GroupKeys(d) == SortedKeys({Key(d[i]) : i \in {j \in DOMAIN d : HasKey(d[j])}})

\* The rows of one group, in data frame order.
Members(d, k) == SelectSeq(d, LAMBDA r : HasKey(r) /\ Key(r) = k)

\* As Aggregate, with MRP taken from the last row of the group.
AggregateLastMrp(d, k) ==
    LET g == Members(d, k)
    IN  [Category |-> k[1], Item_Name |-> g[1].Item_Name, Unit |-> k[3],
         Quantity |-> SumSeq([i \in DOMAIN g |-> g[i].Quantity]),
         Free_Quantity |-> SumSeq([i \in DOMAIN g |-> g[i].Free_Quantity]),
         MRP |-> g[Len(g)].MRP]

\* .agg({'Quantity': 'sum', 'Free_Quantity': 'sum', 'MRP': 'first'}) of one
\* group.
Aggregate(d, k) ==
    LET g == Members(d, k)
    IN  [Category |-> k[1], Item_Name |-> g[1].Item_Name, Unit |-> k[3],
         Quantity |-> SumSeq([i \in DOMAIN g |-> g[i].Quantity]),
         Free_Quantity |-> SumSeq([i \in DOMAIN g |-> g[i].Free_Quantity]),
         MRP |-> g[1].MRP]

\* Order of two rows under by=['Category', 'Item Name'].
SortLess(r1, r2) ==
    \/ StrLess(r1.Category, r2.Category)
    \/ r1.Category = r2.Category /\ StrLess(str(r1.Item_Name), str(r2.Item_Name))

\* r put into the sorted sequence s after every row that is not greater.
RECURSIVE Insert(_, _)
Insert(s, r) ==
    IF s = <<>> THEN <<r>>
    ELSE IF SortLess(r, s[Len(s)])
         THEN Append(Insert(SubSeq(s, 1, Len(s) - 1), r), s[Len(s)])
         ELSE Append(s, r)

\* sort_values on two columns: a stable sort (lexsort).
RECURSIVE sort_values(_)
sort_values(s) ==
    IF s = <<>> THEN <<>>
    ELSE Insert(sort_values(SubSeq(s, 1, Len(s) - 1)), s[Len(s)])

\* Lines 51-55.
Grouped(d) ==
    LET ks == GroupKeys(d)
    IN  sort_values([i \in DOMAIN ks |-> Aggregate(d, ks[i])])

----------------------------------------------------------------------------
(* The table rows *)

Blank == [kind |-> "blank", val |-> 0]
IntCell(n) == [kind |-> "int", val |-> n]
Fixed2Cell(h) == [kind |-> "fixed2", val |-> h]
FloatCell(x) == [kind |-> "float", val |-> x]

\* x.is_integer()
is_integer(x) == x % Scale = 0

\* int(x): the fraction is dropped, towards zero.
int(x) == IF x >= 0 THEN x \div Scale ELSE -((-x) \div Scale)

\* f"{x:.2f}" in hundredths: the nearest hundredth, a tie going to the even one.
Fixed2(x) ==
    LET a   == IF x >= 0 THEN x ELSE -x
        q   == (a * 100) \div Scale
        rem == (a * 100) % Scale
        h   == IF 2 * rem > Scale \/ (2 * rem = Scale /\ q % 2 = 1)
               THEN q + 1 ELSE q
    IN  IF x >= 0 THEN h ELSE -h

mrp_disp(row) == IF row.MRP # 0 THEN Fixed2Cell(Fixed2(row.MRP)) ELSE Blank

qty_disp(row) ==
    IF is_integer(row.Quantity) THEN IntCell(int(row.Quantity))
    ELSE Fixed2Cell(Fixed2(row.Quantity))

free_disp(row) ==
    IF row.Free_Quantity > 0 THEN IntCell(int(row.Free_Quantity)) ELSE Blank

\* One body row of the table (lines 102-113).
TableRow(row) ==
    [mrp |-> mrp_disp(row), Category |-> row.Category,
     Item_Name |-> str(row.Item_Name), Unit |-> row.Unit,
     qty |-> qty_disp(row), free |-> free_disp(row)]

TotalCell(t) == IF is_integer(t) THEN IntCell(int(t)) ELSE FloatCell(t)

TOTAL_ITEMS == <<"T", "O", "T", "A", "L", " ", "I", "T", "E", "M", "S">>

\* The TOTAL ITEMS row (lines 115-117).
TotalRow(tq, tf) ==
    [mrp |-> Blank, Category |-> <<>>, Item_Name |-> TOTAL_ITEMS,
     Unit |-> <<>>, qty |-> TotalCell(tq), free |-> TotalCell(tf)]

----------------------------------------------------------------------------
(* The run of the script on an uploaded file.  Every step of the try block *)
(* that handles the file's data or builds the document calls into pandas   *)
(* or reportlab and may raise; the except clause catches it.               *)

\* An exception raised at `step` reaches the except clause.
Throw(step) ==
    /\ pc' = "except"
    /\ failed' = step
    /\ UNCHANGED <<value, result, rows, df, table_data, t_qty, t_free,
                   errors, success, download>>

\* Lines 40-41: the sheet and its five columns.
ReadExcel ==
    /\ pc = "read_excel"
    /\ \/ /\ df' = rows
          /\ pc' = "apply"
          /\ UNCHANGED <<value, result, rows, table_data, t_qty, t_free,
                         failed, errors, success, download>>
       \/ Throw("read_excel")

\* Lines 43-45.
ApplyExtract ==
    /\ pc = "apply"
    /\ \/ /\ \A i \in DOMAIN df : ~extract_quantities(df[i].Raw_Qty).raised
          /\ df' = WithQuantities(df)
          /\ pc' = "normalize"
          /\ UNCHANGED <<value, result, rows, table_data, t_qty, t_free,
                         failed, errors, success, download>>
       \/ Throw("apply")

\* Lines 47-49.
Normalize ==
    /\ pc = "normalize"
    /\ \/ /\ df' = Normalized(df)
          /\ pc' = "groupby"
          /\ UNCHANGED <<value, result, rows, table_data, t_qty, t_free,
                         failed, errors, success, download>>
       \/ Throw("normalize")

\* Lines 51-55.
GroupBy ==
    /\ pc = "groupby"
    /\ \/ /\ df' = Grouped(df)
          /\ pc' = "table"
          /\ UNCHANGED <<value, result, rows, table_data, t_qty, t_free,
                         failed, errors, success, download>>
       \/ Throw("groupby")

\* Lines 95-117: the loop over the rows, then the TOTAL ITEMS row.  With no
\* rows t_qty is still the int 0, whose is_integer() exists only from
\* Python 3.12 on: both outcomes are kept.
BuildTable ==
    /\ pc = "table"
    /\ \/ /\ t_qty' = SumSeq([i \in DOMAIN df |-> df[i].Quantity])
          /\ t_free' = SumSeq([i \in DOMAIN df |-> df[i].Free_Quantity])
          /\ table_data' = Append([i \in DOMAIN df |-> TableRow(df[i])],
                                  TotalRow(t_qty', t_free'))
          /\ pc' = "build"
          /\ UNCHANGED <<value, result, rows, df, failed, errors, success,
                         download>>
       \/ Throw("table")

\* As DocBuild, with st.success called before doc.build.
DocBuildAfterSuccess ==
    /\ pc = "build"
    /\ success' = TRUE
    /\ \/ /\ pc' = "success"
          /\ failed' = failed
       \/ /\ pc' = "except"
          /\ failed' = "build"
    /\ UNCHANGED <<value, result, rows, df, table_data, t_qty, t_free,
                   errors, download>>

\* Lines 136-137.
DocBuild ==
    /\ pc = "build"
    /\ \/ /\ pc' = "success"
          /\ UNCHANGED <<value, result, rows, df, table_data, t_qty, t_free,
                         failed, errors, success, download>>
       \/ Throw("build")

\* Line 139.
StSuccess ==
    /\ pc = "success"
    /\ success' = TRUE
    /\ pc' = "download_button"
    /\ UNCHANGED <<value, result, rows, df, table_data, t_qty, t_free,
                   failed, errors, download>>

\* Lines 140-145.
StDownloadButton ==
    /\ pc = "download_button"
    /\ download' = TRUE
    /\ pc' = "done"
    /\ UNCHANGED <<value, result, rows, df, table_data, t_qty, t_free,
                   failed, errors, success>>

\* Lines 147-148.
Except ==
    /\ pc = "except"
    /\ errors' = errors + 1
    /\ pc' = "done"
    /\ UNCHANGED <<value, result, rows, df, table_data, t_qty, t_free,
                   failed, success, download>>

Next ==
    \/ ReadExcel
    \/ ApplyExtract
    \/ Normalize
    \/ GroupBy
    \/ BuildTable
    \/ DocBuild
    \/ StSuccess
    \/ StDownloadButton
    \/ Except

----------------------------------------------------------------------------
(* Uploaded sheets *)

RECURSIVE SheetsUpTo(_, _)
SheetsUpTo(rs, n) ==
    IF n = 0 THEN {<<>>}
    ELSE LET shorter == SheetsUpTo(rs, n - 1)
         IN  shorter \cup {Append(s, r) : s \in shorter, r \in rs}

\* The script starts on an uploaded file holding `sheet`.
Started(sheets) ==
    /\ pc = "read_excel"
    /\ rows \in sheets
    /\ value = NA
    /\ result = Return(0, 0)
    /\ df = <<>>
    /\ table_data = <<>>
    /\ t_qty = 0
    /\ t_free = 0
    /\ failed = ""
    /\ errors = 0
    /\ success = FALSE
    /\ download = FALSE

\* Rows with every cell filled: two categories, items, units and prices.
GroupRows ==
    {Row(Text(<<i>>), Text(<<c>>), Num(m), Text(q), Text(<<u>>)) :
        i \in {"A", "B"}, c \in {"A", "B"}, m \in 1..2,
        q \in {<<"1">>, <<"2", "+", "1">>}, u \in {"g", "k"}}

Init == Started(SheetsUpTo(GroupRows, MaxRows))

Spec == Init /\ [][Next]_vars

\* Rows whose category, unit and price cells may be empty, padded or text.
NormRows ==
    {Row(Text(<<"A">>), c, m, Text(<<"1">>), u) :
        c \in {Text(<<"A">>), Text(<<" ", "A", " ">>), NA},
        m \in {Num(1), Text(<<"x">>), NA},
        u \in {Text(<<"k">>), Text(<<"k", " ">>), NA}}

InitNorm == Started(SheetsUpTo(NormRows, MaxRows))

SpecNorm == InitNorm /\ [][Next]_vars

\* Rows of one category and unit whose item cell may be empty and whose
\* quantity cell takes the shapes the parser distinguishes.
QtyRows ==
    {Row(i, Text(<<"A">>), Num(1), q, Text(<<"k">>)) :
        i \in {Text(<<"A">>), NA},
        q \in {Text(<<"1">>), Text(<<"2", "+", "1">>),
               Text(<<"1", "+", ".", "5">>), Text(<<"-", "1">>),
               Text(<<"1", "+", "-", "1">>), Text(<<"a">>), Num(2), NA}}

InitQty == Started(SheetsUpTo(QtyRows, MaxRows))

SpecQty == InitQty /\ [][Next]_vars

----------------------------------------------------------------------------
(* Where the run stands *)

\* df holds the normalised rows, not yet grouped.
DfNormalized ==
    \/ pc = "groupby"
    \/ pc \in {"except", "done"} /\ failed = "groupby"

\* df holds the grouped and sorted rows.
DfGrouped ==
    \/ pc \in {"table", "build", "success", "download_button"}
    \/ pc \in {"except", "done"} /\ failed \in {"", "table", "build"}

\* table_data holds the body rows and the TOTAL ITEMS row.
TableBuilt ==
    \/ pc \in {"build", "success", "download_button"}
    \/ pc \in {"except", "done"} /\ failed \in {"", "build"}

----------------------------------------------------------------------------
(* The quantity parser: C2, C3, C4, C7 *)

PlusCount(s) == Cardinality({i \in DOMAIN s : s[i] = "+"})

Zero == Return(0, 0)

\* One side of a '+': empty or blank counts as 0.0, otherwise it is parsed.
Side(s) == IF \A i \in DOMAIN s : s[i] = " " THEN [raised |-> FALSE, val |-> 0]
           ELSE Float(s)

\* The result of cutting t at its first '+' into the text before it and all
\* of the text after it.
CutAtFirstPlus(t) ==
    LET i == Find(t, "+")
        l == Side(SubSeq(t, 1, i - 1))
        r == Side(SubSeq(t, i + 1, Len(t)))
    IN  IF l.raised \/ r.raised THEN Zero ELSE Return(l.val, r.val)

\* The reference result for a string with at most one '+'.
Reference(t) ==
    IF PlusCount(t) = 0
    THEN IF Float(t).raised THEN Zero ELSE Return(Float(t).val, 0)
    ELSE CutAtFirstPlus(t)

\* C2: for a quantity string with at most one '+', extract_quantities returns
\* the reference result: (n, 0) or (0, 0) without a '+', and with one '+' the
\* two sides, a blank side counting 0, and (0, 0) as a whole when a side does
\* not parse.
C2_Reference ==
    (pc = "return" /\ ~isna(value) /\ PlusCount(Strip(str(value))) <= 1)
        => result = Reference(Strip(str(value)))

\* "a+2" has been parsed, and the result is (0, 0), not (0, 2).
C2_Witness ==
    /\ pc = "return"
    /\ value = Text(<<"a", "+", "2">>)
    /\ result = Zero

\* Some text handed to float() by the call does not parse.
ParseFails(v) ==
    /\ ~isna(v)
    /\ LET t == Strip(str(v))
       IN  IF PlusCount(t) = 0 THEN Float(t).raised
           ELSE Side(SubSeq(t, 1, Find(t, "+") - 1)).raised

\* C3: extract_quantities never raises; a missing input gives (0, 0) and so
\* does every parse failure.
C3_NeverRaises ==
    pc = "return" =>
        /\ ~result.raised
        /\ isna(value) => result = Zero
        /\ ParseFails(value) => result = Zero

\* Unparsable text with two '+' has been handled and gave (0, 0).
C3_Witness ==
    /\ pc = "return"
    /\ value = Text(<<"a", "+", "+">>)
    /\ result = Zero

\* C4: every result of extract_quantities has base >= 0 and free >= 0, and so
\* have every aggregate row and both totals.
C4_NonNegative ==
    /\ pc = "return" => result.base >= 0 /\ result.free >= 0
    /\ DfGrouped =>
          \A i \in DOMAIN df : df[i].Quantity >= 0 /\ df[i].Free_Quantity >= 0
    /\ TableBuilt => t_qty >= 0 /\ t_free >= 0

\* C7: a string with a '+' is cut in two at its first '+', the free quantity
\* being parsed from all of the text after it.
C7_FirstPlus ==
    (pc = "return" /\ ~isna(value) /\ PlusCount(Strip(str(value))) >= 1)
        => result = CutAtFirstPlus(Strip(str(value)))

----------------------------------------------------------------------------
(* Grouping and ordering: C1, C5 *)

\* The group key of a sheet row after normalisation.
RawKey(r) ==
    <<fill_str_strip(r.Category, Uncategorized), str(r.Item_Name),
      fill_str_strip(r.Unit, <<"-">>)>>

\* The sheet rows that belong to key k.
RowsOf(k) == {n \in DOMAIN rows : RawKey(rows[n]) = k}

\* The sum of f over the sheet rows in idx.
SumRows(idx, f(_)) ==
    SumSeq([n \in DOMAIN rows |-> IF n \in idx THEN f(rows[n]) ELSE 0])

Base(r) == extract_quantities(r.Raw_Qty).base
Free(r) == extract_quantities(r.Raw_Qty).free

Min(S) == CHOOSE x \in S : \A y \in S : x <= y

\* C1: the rows of one key collapse into exactly one output row; its
\* quantity and free quantity are the sums over those rows and its mrp is the
\* coerced mrp of the first of them in input order.
C1_Grouping ==
    DfGrouped =>
        /\ \A i, j \in DOMAIN df : i # j => Key(df[i]) # Key(df[j])
        /\ \A n \in DOMAIN rows : \E i \in DOMAIN df : Key(df[i]) = RawKey(rows[n])
        /\ \A i \in DOMAIN df :
              LET idx == RowsOf(Key(df[i]))
              IN  /\ idx # {}
                  /\ df[i].Quantity = SumRows(idx, Base)
                  /\ df[i].Free_Quantity = SumRows(idx, Free)
                  /\ df[i].MRP = to_numeric_fillna(rows[Min(idx)].MRP)

\* Two rows of one key, the first with the higher price and the lower
\* quantity, have become one row carrying the first row's price.
C1_Witness ==
    /\ pc = "done" /\ download
    /\ Len(rows) = 2 /\ Len(df) = 1
    /\ rows[1].MRP = Num(2) /\ rows[2].MRP = Num(1)
    /\ rows[1].Raw_Qty = Text(<<"1">>) /\ rows[2].Raw_Qty = Text(<<"2", "+", "1">>)
    /\ df[1].MRP = 2 * Scale
    /\ df[1].Quantity = 3 * Scale /\ df[1].Free_Quantity = Scale

\* The output is ascending by category, then item name.
Ascending ==
    \A i, j \in DOMAIN df : i < j =>
        \/ StrLess(df[i].Category, df[j].Category)
        \/ /\ df[i].Category = df[j].Category
           /\ ~StrLess(str(df[j].Item_Name), str(df[i].Item_Name))

SameItem(r1, r2) == r1.Category = r2.Category /\ r1.Item_Name = r2.Item_Name

\* C5 as stated: ascending by category and item name, rows that tie keeping
\* the order in which their groups first occur in the input.
C5_InputOrderTies ==
    DfGrouped =>
        /\ Ascending
        /\ \A i, j \in DOMAIN df : (i < j /\ SameItem(df[i], df[j])) =>
              Min(RowsOf(Key(df[i]))) < Min(RowsOf(Key(df[j])))

\* C5 amended: ascending by category and item name, rows that tie being in
\* ascending order of unit, the order in which groupby emits its groups.
C5_UnitOrderTies ==
    DfGrouped =>
        /\ Ascending
        /\ \A i, j \in DOMAIN df : (i < j /\ SameItem(df[i], df[j])) =>
              StrLess(df[i].Unit, df[j].Unit)

\* Unit "k" came before unit "g" of the same item on the sheet, and the
\* output has "g" first.
C5_Witness ==
    /\ DfGrouped
    /\ Len(rows) = 2 /\ Len(df) = 2
    /\ SameItem(rows[1], rows[2])
    /\ rows[1].Unit = Text(<<"k">>) /\ rows[2].Unit = Text(<<"g">>)
    /\ df[1].Unit = <<"g">> /\ df[2].Unit = <<"k">>

----------------------------------------------------------------------------
(* Normalisation: C6 *)

Spaces(s) == \A i \in DOMAIN s : s[i] = " "

\* t is s without its leading and trailing whitespace.
IsTrimOf(t, s) ==
    /\ t = <<>> \/ (t[1] # " " /\ t[Len(t)] # " ")
    /\ \E a \in 0..Len(s) :
          /\ a + Len(t) <= Len(s)
          /\ Spaces(SubSeq(s, 1, a))
          /\ SubSeq(s, a + 1, a + Len(t)) = t
          /\ Spaces(SubSeq(s, a + Len(t) + 1, Len(s)))

\* t is what cell v is normalised to, `placeholder` standing for a missing one.
IsNormOf(t, v, placeholder) ==
    IF v.kind = "na" THEN t = placeholder ELSE IsTrimOf(t, v.str)

\* Two cells that are both missing or differ only by surrounding whitespace.
SameCell(v, w) ==
    \/ v.kind = "na" /\ w.kind = "na"
    \/ /\ v.kind = "str" /\ w.kind = "str"
       /\ \E a \in 1..(Len(v.str) + 1), b \in 0..Len(v.str) :
             /\ IsTrimOf(SubSeq(v.str, a, b), v.str)
             /\ IsTrimOf(SubSeq(v.str, a, b), w.str)

SameGroup(r1, r2) ==
    /\ r1.Item_Name = r2.Item_Name
    /\ SameCell(r1.Category, r2.Category)
    /\ SameCell(r1.Unit, r2.Unit)

\* C6: before grouping every row has its unit and category trimmed, "-" for a
\* missing unit, "Uncategorized" for a missing category and 0 for a missing
\* or non-numeric mrp; rows whose category and unit differ only by
\* surrounding whitespace, or are missing in both, end in one group.
C6_Normalization ==
    /\ DfNormalized =>
          /\ Len(df) = Len(rows)
          /\ \A n \in DOMAIN rows :
                /\ IsNormOf(df[n].Unit, rows[n].Unit, <<"-">>)
                /\ IsNormOf(df[n].Category, rows[n].Category, Uncategorized)
                /\ rows[n].MRP.kind = "na" => df[n].MRP = 0
                /\ (rows[n].MRP.kind = "str" /\ Float(rows[n].MRP.str).raised)
                      => df[n].MRP = 0
                /\ rows[n].MRP.kind = "num" => df[n].MRP = rows[n].MRP.num * Scale
    /\ DfGrouped =>
          \A m, n \in DOMAIN rows : SameGroup(rows[m], rows[n]) =>
              \E i \in DOMAIN df :
                  /\ IsNormOf(df[i].Category, rows[m].Category, Uncategorized)
                  /\ IsNormOf(df[i].Category, rows[n].Category, Uncategorized)
                  /\ IsNormOf(df[i].Unit, rows[m].Unit, <<"-">>)
                  /\ IsNormOf(df[i].Unit, rows[n].Unit, <<"-">>)
                  /\ df[i].Quantity =
                        SumRows({o \in DOMAIN rows : SameGroup(rows[m], rows[o])},
                                Base)

\* A row of category "A" and one of category " A ", both without a unit and
\* the first with a text mrp, have become one row of unit "-" and mrp 0.
C6_Witness ==
    /\ pc = "table"
    /\ Len(rows) = 2 /\ Len(df) = 1
    /\ rows[1].Category = Text(<<"A">>) /\ rows[2].Category = Text(<<" ", "A", " ">>)
    /\ rows[1].Unit = NA /\ rows[2].Unit = NA
    /\ rows[1].MRP = Text(<<"x">>)
    /\ df[1].Category = <<"A">> /\ df[1].Unit = <<"-">> /\ df[1].MRP = 0
    /\ df[1].Quantity = 2 * Scale

----------------------------------------------------------------------------
(* Messages: C8 *)

TrySteps == {"read_excel", "apply", "normalize", "groupby", "table", "build"}

\* C8: a failing step gives exactly one error message and neither the
\* success message nor the download button; these two are shown only after
\* the PDF build has completed, with the complete table.
C8_SingleFailure ==
    /\ errors <= 1
    /\ failed \in TrySteps => ~success /\ ~download
    /\ (failed \in TrySteps /\ pc = "done") => errors = 1
    /\ errors = 1 => failed \in TrySteps
    /\ success => (pc \in {"download_button", "done"} /\ failed = "")
    /\ download => (success /\ pc = "done" /\ Len(table_data) = Len(df) + 1)

\* doc.build raised on a finished table and the one error message was shown.
C8_Witness ==
    /\ pc = "done"
    /\ failed = "build"
    /\ Len(table_data) = 3
    /\ errors = 1 /\ ~success /\ ~download

----------------------------------------------------------------------------
(* Totals and the FREE QTY column: C9, C10 *)

AllRows == DOMAIN rows

\* The number a table cell shows, in fixed point; an empty cell adds nothing.
Shown(c) ==
    CASE c.kind = "blank"  -> 0
      [] c.kind = "int"    -> c.val * Scale
      [] c.kind = "float"  -> c.val
      [] c.kind = "fixed2" -> (c.val * Scale) \div 100

\* C9: no row is lost by grouping: the reported totals are the sums of the
\* parsed base and free quantities of all the sheet's rows.
C9_Conservation ==
    TableBuilt =>
        /\ t_qty = SumRows(AllRows, Base)
        /\ t_free = SumRows(AllRows, Free)
        /\ Shown(table_data[Len(table_data)].qty) = SumRows(AllRows, Base)
        /\ Shown(table_data[Len(table_data)].free) = SumRows(AllRows, Free)

\* C10: a FREE QTY cell is empty exactly when the row's free quantity is 0
\* and otherwise shows that free quantity, so the cells add up to the free
\* quantity of the TOTAL ITEMS row.
C10_FreeCells ==
    TableBuilt =>
        /\ \A i \in DOMAIN df :
              /\ table_data[i].free.kind = "blank" <=> df[i].Free_Quantity = 0
              /\ Shown(table_data[i].free) = df[i].Free_Quantity
        /\ SumSeq([i \in DOMAIN df |-> Shown(table_data[i].free)])
              = Shown(table_data[Len(table_data)].free)

====
